---- MODULE Spec2Model ----
(***************************************************************************)
(* Model of generate.py: the Settings URL codec (build_url and             *)
(* get_path_segments), the merge engine (merge_into) and the URL tree      *)
(* (URLTree, RawSettingsURL) with the gap/alias/override pipeline.         *)
(*                                                                         *)
(* Strings of the program are sequences of symbols.  A symbol is either    *)
(* one punctuation character (":", "/", "#", "&", "=", "%", " ", "+") or   *)
(* a maximal run of name characters ("prefs", "root", "A", "20").  String  *)
(* concatenation is \o, and every scan of the library code (find, split,   *)
(* startswith) is a scan over symbols.                                     *)
(***************************************************************************)
EXTENDS Integers, Sequences, FiniteSets, TLC

VARIABLES
    cpc,          \* codec run: position "start", "parsed", "built", "reparsed"
    curl,         \* codec run: the input URL u
    csegs,        \* codec run: list(get_path_segments(u))
    cbuilt,       \* codec run: build_url(csegs)
    csegs2,       \* codec run: list(get_path_segments(cbuilt))
    mdict,        \* merge run: the mapping c that merge_into works on
    mstrs,        \* merge run: every string merged so far
    mscalar,      \* merge run: only strings and lists were merged so far
    mcount,       \* merge run: number of merge_into calls made
    mstage,       \* merge run: "idle", "once" (v merged), "twice" (v merged again)
    mlast,        \* merge run: the value v of the last call
    mprev,        \* merge run: c after the first merge of mlast
    tree,         \* the URLTree nodes by identity; tree[1] is the global `tree`
    gpc,          \* gap run: "build", "scanned", "rescanned", "filled", "refilled"
    missing,      \* gap run: the pairs of the last complete find_missing() run
    gprev,        \* gap run: the pairs of the run before
    gfill,        \* gap run: the pair whose URL was given to add_url
    nurls,        \* number of manifest items loaded
    lastItem,     \* index in ManifestItems of the last item loaded
    manifests,    \* the global `manifests`: name -> strings of the manifest
    pc,           \* position of the pipeline script
    err,          \* the exception that ended the script, or NoError
    ignored_urls, \* ignore.txt
    gap_overrides,          \* gaps.json
    additional_overrides,   \* add.json
    alias_localizations,    \* the global `alias_localizations`
    urls_to_override,       \* the global `urls_to_override`
    naliases,     \* number of tree.add_alias calls made by the script
    acall,        \* <<>> or the arguments and the state before the last add_alias
    pbefore,      \* <<>> or the tree before the last missing-node pass
    fbefore,      \* <<>> or the tree before the root flattening
    exported      \* locale -> the files written for each scheme (json, md)

codecVars == <<cpc, curl, csegs, cbuilt, csegs2>>

mergeVars == <<mdict, mstrs, mscalar, mcount, mstage, mlast, mprev>>

gapVars == <<gpc, missing, gprev, gfill>>

treeVars == <<tree, nurls, lastItem, manifests>>

inputVars == <<ignored_urls, gap_overrides, additional_overrides>>

pipeVars == <<pc, err, inputVars, alias_localizations, urls_to_override, naliases,
              acall, pbefore, fbefore, exported>>

vars == <<codecVars, mergeVars, treeVars, gapVars, pipeVars>>

(***************************************************************************)
(* Bounds                                                                  *)
(***************************************************************************)
MaxPathLen == 2

MaxMerges == 3

MaxListLen == 2

MaxUrls == 3

MaxAliases == 1

(***************************************************************************)
(* String helpers (str.find, str.split, str.join, str.startswith)          *)
(***************************************************************************)
RECURSIVE Find(_, _, _)
Find(s, syms, i) ==
    IF i > Len(s) THEN 0
    ELSE IF s[i] \in syms THEN i
    ELSE Find(s, syms, i + 1)

Contains(s, sym) == Find(s, {sym}, 1) > 0

From(s, i) == SubSeq(s, i, Len(s))

Upto(s, i) == SubSeq(s, 1, i)

RECURSIVE Split(_, _)
Split(s, sep) ==
    LET i == Find(s, {sep}, 1)
    IN IF i = 0 THEN <<s>>
       ELSE <<Upto(s, i - 1)>> \o Split(From(s, i + 1), sep)

RECURSIVE Join(_, _)
Join(parts, sep) ==
    IF Len(parts) = 0 THEN <<>>
    ELSE IF Len(parts) = 1 THEN parts[1]
    ELSE parts[1] \o <<sep>> \o Join(Tail(parts), sep)

startswith(s, sym) == Len(s) > 0 /\ s[1] = sym

RECURSIVE NonEmpty(_)
NonEmpty(parts) ==
    IF Len(parts) = 0 THEN <<>>
    ELSE IF Len(parts[1]) > 0 THEN <<parts[1]>> \o NonEmpty(Tail(parts))
    ELSE NonEmpty(Tail(parts))

RECURSIVE Flatten(_)
Flatten(lists) ==
    IF Len(lists) = 0 THEN <<>>
    ELSE lists[1] \o Flatten(Tail(lists))

(***************************************************************************)
(* urllib.parse.quote / unquote.  quote() leaves name characters and the   *)
(* safe "/" alone and writes every other character as "%" and its code;    *)
(* unquote() turns "%" followed by a code back into the character.         *)
(***************************************************************************)
HexCode ==
    [c \in {" ", "%", "#", "&", "=", ":", "+"} |->
        CASE c = " " -> "20"
          [] c = "%" -> "25"
          [] c = "#" -> "23"
          [] c = "&" -> "26"
          [] c = "=" -> "3D"
          [] c = ":" -> "3A"
          [] c = "+" -> "2B"]

HexChar(code) == CHOOSE c \in DOMAIN HexCode : HexCode[c] = code

IsHex(code) == \E c \in DOMAIN HexCode : HexCode[c] = code

RECURSIVE quote(_)
quote(s) ==
    IF Len(s) = 0 THEN <<>>
    ELSE IF s[1] \in DOMAIN HexCode
         THEN <<"%", HexCode[s[1]]>> \o quote(Tail(s))
         ELSE <<s[1]>> \o quote(Tail(s))

RECURSIVE unquote(_)
unquote(s) ==
    IF Len(s) = 0 THEN <<>>
    ELSE IF s[1] = "%" /\ Len(s) > 1 /\ IsHex(s[2])
         THEN <<HexChar(s[2])>> \o unquote(From(s, 3))
         ELSE <<s[1]>> \o unquote(Tail(s))

PlusToSpace(s) == [i \in 1..Len(s) |-> IF s[i] = "+" THEN " " ELSE s[i]]

(***************************************************************************)
(* urllib.parse.urlparse(url, allow_fragments=True): the scheme is what    *)
(* precedes the first ":", a netloc follows "//" and ends at the next      *)
(* "/", "?" or "#", the fragment is what follows the first "#".            *)
(***************************************************************************)
\* the path is what precedes the first "?"
SplitQuery(scheme, netloc, rest, frag) ==
    LET q == Find(rest, {"?"}, 1)
    IN [scheme |-> scheme, netloc |-> netloc,
        path |-> IF q = 0 THEN rest ELSE Upto(rest, q - 1), fragment |-> frag]

\* the fragment is what follows the first "#"
SplitFragment(scheme, netloc, rest) ==
    LET h == Find(rest, {"#"}, 1)
    IN SplitQuery(scheme, netloc,
                  IF h = 0 THEN rest ELSE Upto(rest, h - 1),
                  IF h = 0 THEN <<>> ELSE From(rest, h + 1))

\* a netloc follows "//" and ends at the next "/", "?" or "#"
SplitNetloc(scheme, rest) ==
    LET hasNet == Len(rest) >= 2 /\ rest[1] = "/" /\ rest[2] = "/"
        delim  == IF hasNet THEN Find(rest, {"/", "?", "#"}, 3) ELSE 0
    IN SplitFragment(scheme,
                     IF ~hasNet THEN <<>>
                     ELSE IF delim = 0 THEN From(rest, 3)
                     ELSE SubSeq(rest, 3, delim - 1),
                     IF ~hasNet THEN rest
                     ELSE IF delim = 0 THEN <<>>
                     ELSE From(rest, delim))

urlparse(url) ==
    LET i == Find(url, {":"}, 1)
    IN SplitNetloc(IF i > 1 THEN Upto(url, i - 1) ELSE <<>>,
                   IF i > 1 THEN From(url, i + 1) ELSE url)

(***************************************************************************)
(* urllib.parse.parse_qs(qs): the "&"-separated name=value pairs with a    *)
(* non-blank value, "+" read as a space and both sides unquoted, as the    *)
(* list of <<name, value>> in order of appearance.                         *)
(***************************************************************************)
RECURSIVE QsPairs(_)
QsPairs(fields) ==
    IF Len(fields) = 0 THEN <<>>
    ELSE LET nv == fields[1]
             e  == Find(nv, {"="}, 1)
         IN IF e = 0 \/ Len(From(nv, e + 1)) = 0
            THEN QsPairs(Tail(fields))
            ELSE <<  <<unquote(PlusToSpace(Upto(nv, e - 1))),
                       unquote(PlusToSpace(From(nv, e + 1)))>>  >>
                 \o QsPairs(Tail(fields))

parse_qs(qs) == QsPairs(Split(qs, "&"))

\* parsed[name]: the values given for name, in order
RECURSIVE QsValues(_, _)
QsValues(pairs, name) ==
    IF Len(pairs) = 0 THEN <<>>
    ELSE IF pairs[1][1] = name
         THEN <<pairs[1][2]>> \o QsValues(Tail(pairs), name)
         ELSE QsValues(Tail(pairs), name)

\* the segments that the root= and path= parameters of a query string yield
RECURSIVE PathParts(_)
PathParts(values) ==
    IF Len(values) = 0 THEN <<>>
    ELSE NonEmpty(Split(values[1], "/")) \o PathParts(Tail(values))

QuerySegments(pairs) ==
    QsValues(pairs, <<"root">>) \o PathParts(QsValues(pairs, <<"path">>))

\* the segments of a parsed URL: scheme, netloc or query parameters, path parts
\* and the fragment
ParsedSegments(parsed) ==
    <<parsed.scheme>>
    \o (IF Len(parsed.netloc) > 0
        THEN (IF Len(parse_qs(parsed.netloc)) > 0
              THEN QuerySegments(parse_qs(parsed.netloc))
              ELSE <<parsed.netloc>>)
             \o NonEmpty(Split(parsed.path, "/"))
        ELSE QuerySegments(parse_qs(parsed.path)))
    \o (IF Len(parsed.fragment) > 0 THEN << <<"#">> \o parsed.fragment >> ELSE <<>>)

get_path_segments(url) == ParsedSegments(urlparse(url))

IndexError == <<"IndexError">>

NoError == "none"

Front(s) == SubSeq(s, 1, Len(s) - 1)

build_url(segments) ==
    IF Len(segments) = 0 THEN <<>>
    ELSE LET url_scheme == segments[1]
             nav        == url_scheme = <<"settings-navigation">>
             head       == url_scheme \o <<":">> \o (IF nav THEN <<"/", "/">> ELSE <<>>)
         IN IF Len(segments) > 1
            THEN LET hasFrag       == startswith(segments[Len(segments)], "#")
                     url_fragment  == IF hasFrag THEN segments[Len(segments)] ELSE <<>>
                     segments_list == IF hasFrag THEN Front(segments) ELSE segments
                 IN IF nav
                    THEN head \o quote(Join(Tail(segments_list), "/")) \o url_fragment
                         \o url_fragment
                    ELSE IF Len(segments_list) < 2 THEN IndexError
                    ELSE head \o <<"root", "=">> \o segments_list[2]
                         \o (IF Len(segments_list) > 2
                             THEN <<"&", "path", "=">>
                                  \o quote(Join(From(segments_list, 3), "/"))
                             ELSE <<>>)
                         \o url_fragment
            ELSE head

(***************************************************************************)
(* The corpus of well-formed URLs: query-style prefs:/bridge: with root=   *)
(* and an optional path= of up to MaxPathLen parts, path-style             *)
(* settings-navigation:// with a host and up to MaxPathLen parts, each     *)
(* with or without a fragment.  A part is a name or a name holding an      *)
(* escaped space.                                                          *)
(***************************************************************************)
QuerySchemes == {<<"prefs">>, <<"bridge">>}

NavScheme == <<"settings-navigation">>

RootNames == {<<"A">>, <<"ROOT">>}

PartTexts == {<<"a">>, <<"b">>, <<"a", "%", "20", "b">>}

FragTexts == {<<>>, <<"F">>}

PartLists == UNION {[1..n -> PartTexts] : n \in 0..MaxPathLen}

FragSuffix(f) == IF Len(f) = 0 THEN <<>> ELSE <<"#">> \o f

QueryURL(s, r, ps, f) ==
    s \o <<":", "root", "=">> \o r
      \o (IF Len(ps) > 0 THEN <<"&", "path", "=">> \o Join(ps, "/") ELSE <<>>)
      \o FragSuffix(f)

NavURL(r, ps, f) ==
    NavScheme \o <<":", "/", "/">> \o Join(<<r>> \o ps, "/") \o FragSuffix(f)

WellFormedURLs ==
    {QueryURL(s, r, ps, f) : s \in QuerySchemes, r \in RootNames,
                             ps \in PartLists, f \in FragTexts}
    \cup {NavURL(r, ps, f) : r \in RootNames, ps \in PartLists, f \in FragTexts}


(***************************************************************************)
(* Merge engine.  A value is tagged with its Python type: a string         *)
(* [t |-> "str"], a list of strings [t |-> "list"] or a mapping            *)
(* [t |-> "dict"] from keys to values.  Every argument of merge_into is a  *)
(* freshly built value, as in build_localized_tree, its only caller.       *)
(***************************************************************************)
ROOT_STR == "(root)"

Str(s) == [t |-> "str", v |-> s]

List(l) == [t |-> "list", v |-> l]

Dict(d) == [t |-> "dict", v |-> d]

EmptyDict == [k \in {} |-> Str(<<>>)]

\* Python's == on two values
PyEq(a, b) == a.t = b.t /\ a.v = b.v

\* the symbols in code point order of their first character
SymbolOrder ==
    <<" ", "#", "%", "&", "+", ".", ".plist", "/", "20", "23", "25", "26", "2B", "3A",
      "3D", ":", "=", "A", "B", "C", "F", "G", "M", "ROOT", "Z", "a", "b", "bridge",
      "c", "path", "prefs", "root", "settings-navigation", "x", "y", "z">>

Rank(sym) == CHOOSE i \in 1..Len(SymbolOrder) : SymbolOrder[i] = sym

\* Python's < on two strings
RECURSIVE StrLess(_, _)
StrLess(a, b) ==
    IF Len(b) = 0 THEN FALSE
    ELSE IF Len(a) = 0 THEN TRUE
    ELSE IF a[1] = b[1] THEN StrLess(Tail(a), Tail(b))
    ELSE Rank(a[1]) < Rank(b[1])

\* list.sort()
RECURSIVE Insert(_, _)
Insert(sorted, s) ==
    IF Len(sorted) = 0 THEN <<s>>
    ELSE IF StrLess(s, sorted[1]) THEN <<s>> \o sorted
    ELSE <<sorted[1]>> \o Insert(Tail(sorted), s)

RECURSIVE Sort(_)
Sort(l) == IF Len(l) = 0 THEN <<>> ELSE Insert(Sort(Front(l)), l[Len(l)])

\* dictionary[key] = value
Put(dictionary, key, value) ==
    [k \in DOMAIN dictionary \cup {key} |-> IF k = key THEN value ELSE dictionary[k]]

\* merge_into that stores the new value over the one already there
merge_into_overwrite(dictionary, key, value) == Put(dictionary, key, value)

RECURSIVE merge_into(_, _, _)
RECURSIVE MergeItems(_, _, _)

\* for key, sub_value in value.items(): merge_into(existing_value, key, sub_value)
MergeItems(existing, value, keys) ==
    IF keys = {} THEN existing
    ELSE LET k == CHOOSE x \in keys : TRUE
         IN MergeItems(merge_into(existing, k, value[k]), value, keys \ {k})

merge_into(dictionary, key, value) ==
    IF key \in DOMAIN dictionary
    THEN LET existing_value == dictionary[key]
         IN IF PyEq(existing_value, value) THEN dictionary
            ELSE IF existing_value.t = "str"
            THEN IF value.t = "dict"
                 THEN Put(dictionary, key,
                          Dict(merge_into(value.v, ROOT_STR, existing_value)))
                 ELSE IF value.t = "str"
                 THEN Put(dictionary, key,
                          List(Sort(<<existing_value.v, value.v>>)))
                 ELSE Put(dictionary, key,
                          List(Sort(Append(value.v, existing_value.v))))
            ELSE IF existing_value.t = "list"
            THEN IF value.t = "dict"
                 THEN Put(dictionary, key,
                          Dict(merge_into(value.v, ROOT_STR, existing_value)))
                 ELSE IF value.t = "str"
                 THEN Put(dictionary, key,
                          List(Sort(Append(existing_value.v, value.v))))
                 ELSE Put(dictionary, key,
                          List(Sort(existing_value.v \o value.v)))
            ELSE IF value.t = "dict"
                 THEN Put(dictionary, key,
                          Dict(MergeItems(existing_value.v, value.v, DOMAIN value.v)))
                 ELSE Put(dictionary, key,
                          Dict(merge_into(existing_value.v, ROOT_STR, value)))
    ELSE Put(dictionary, key, value)

(***************************************************************************)
(* The values merged in a merge run: strings, lists of up to MaxListLen    *)
(* strings, and mappings over the keys "(root)" and "x", one level nested. *)
(***************************************************************************)
MergeStrings == {<<"a">>, <<"b">>, <<"c">>}

MergeLists == UNION {[1..n -> {<<"a">>, <<"b">>}] : n \in 1..MaxListLen}

FlatDicts ==
    UNION {[ks -> {Str(<<"a">>), Str(<<"b">>)}] :
              ks \in {{ROOT_STR}, {"x"}, {ROOT_STR, "x"}}}

NestedDicts ==
    {[k \in {k1} |-> Dict([j \in {k2} |-> Str(s)])] :
        k1 \in {ROOT_STR, "x"}, k2 \in {ROOT_STR, "x"}, s \in {<<"a">>}}

MergeValues ==
    {Str(s) : s \in MergeStrings} \cup {List(l) : l \in MergeLists}
    \cup {Dict(d) : d \in FlatDicts \cup NestedDicts}

MergeKey == "k"

\* the strings held anywhere in a value
RECURSIVE Leaves(_)
Leaves(value) ==
    IF value.t = "str" THEN {value.v}
    ELSE IF value.t = "list" THEN {value.v[i] : i \in 1..Len(value.v)}
    ELSE UNION {Leaves(value.v[k]) : k \in DOMAIN value.v}

MergeInit ==
    /\ mdict = EmptyDict
    /\ mstrs = {}
    /\ mscalar = TRUE
    /\ mcount = 0
    /\ mstage = "idle"
    /\ mlast = Str(<<>>)
    /\ mprev = EmptyDict

\* merge_into(c, k, v)
Merge(v) ==
    /\ mcount < MaxMerges
    /\ mdict' = merge_into(mdict, MergeKey, v)
    /\ mstrs' = mstrs \cup Leaves(v)
    /\ mscalar' = (mscalar /\ v.t # "dict")
    /\ mcount' = mcount + 1
    /\ mstage' = "once"
    /\ mlast' = v
    /\ mprev' = mdict'
    /\ UNCHANGED <<codecVars, treeVars, gapVars, pipeVars>>

\* merge_into(c, k, v) a second time with the v of the call before
MergeAgain ==
    /\ mstage = "once"
    /\ mcount < MaxMerges
    /\ mdict' = merge_into(mdict, MergeKey, mlast)
    /\ mcount' = mcount + 1
    /\ mstage' = "twice"
    /\ UNCHANGED <<mstrs, mscalar, mlast, mprev, codecVars, treeVars, gapVars, pipeVars>>

MergeNext == (\E v \in MergeValues : Merge(v)) \/ MergeAgain

(***************************************************************************)
(* Records.  RawSettingsURL(url, label_id, manifest_path) applies the      *)
(* corrections table; aliases = <<>> stands for None (add_alias never      *)
(* leaves the list empty).                                                 *)
(***************************************************************************)
Url(root, parts, frag) == QueryURL(<<"prefs">>, root, parts, frag)

\* corrections.json: original URL -> replacement url and label_id
url_corrections ==
    [u \in {Url(<<"B">>, <<>>, <<>>)} |->
        [url |-> Url(<<"A">>, <<>>, <<>>), label_id |-> "L2"]]

NoLabels == [l \in {} |-> Str("")]

RawSettingsURL(url, label_id, manifest_path) ==
    [url |-> IF url \in DOMAIN url_corrections THEN url_corrections[url].url ELSE url,
     label_id |-> IF url \in DOMAIN url_corrections
                  THEN url_corrections[url].label_id ELSE label_id,
     manifest_path |-> manifest_path,
     localized_labels |-> NoLabels,
     aliases |-> <<>>]

\* the one manifest of the model and its merged strings (locale -> id -> entry)
ManifestName == <<"M">>

ManifestPath == ManifestName \o <<".plist">>

NoManifests == [m \in {} |-> NoLabels]

\* a localization entry whose label differs between devices
DeviceSpecific(labels) == Dict([NSStringDeviceSpecificRuleType |-> labels])

\* L3 is a device-specific entry, empty for the iPhone; L4 is an empty string
ManifestStrings ==
    [locale \in {"en", "fr"} |->
        IF locale = "en"
        THEN [id \in {"L1", "L2", "L3", "L4"} |->
                 CASE id = "L1" -> Str("One")
                   [] id = "L2" -> Str("Two")
                   [] id = "L3" -> DeviceSpecific([iphone |-> "", ipad |-> "Pad"])
                   [] id = "L4" -> Str("")]
        ELSE [id \in {"L1", "L3"} |->
                 IF id = "L1" THEN Str("Un") ELSE DeviceSpecific([mac |-> "Trois"])]]

LabelIds == {"L1", "L2"}

\* Bundle.load: the labels a manifest's strings give to a record
AssignLabels(url, strings) ==
    [url EXCEPT !.localized_labels =
        [locale \in {l \in DOMAIN strings : url.label_id \in DOMAIN strings[l]} |->
            strings[locale][url.label_id]]]

\* the items of the manifest in file order (searchURL and label); a run loads
\* up to MaxUrls of them, in this order
Item(u, id) == [searchURL |-> u, label |-> id]

ManifestItems ==
    <<Item(Url(<<"A">>, <<>>, <<>>), "L1"),
      Item(Url(<<"A">>, <<>>, <<"F">>), "L2"),
      Item(Url(<<"A">>, << <<"a">>, <<"b">> >>, <<>>), "L1"),
      Item(Url(<<"A">>, << <<"a">> >>, <<>>), "L2"),
      Item(Url(<<"A">>, << <<"a">>, <<"a">> >>, <<>>), "L2"),
      Item(Url(<<"B">>, <<>>, <<>>), "L1"),
      Item(Url(<<"ROOT">>, <<>>, <<"F">>), "L1"),
      Item(Url(<<"ROOT">>, << <<"ROOT">> >>, <<>>), "L2"),
      Item(Url(<<"ROOT">>, << <<"A">> >>, <<>>), "L2"),
      Item(NavURL(<<"A">>, <<>>, <<>>), "L1"),
      Item(NavURL(<<"A">>, <<>>, <<"F">>), "L2"),
      Item(NavURL(<<"A">>, << <<"a">> >>, <<>>), "L2"),
      Item(NavURL(<<"A">>, << <<"a", "%", "20", "b">>, <<"b">> >>, <<>>), "L1"),
      Item(Url(<<"ROOT">>, <<>>, <<>>), "L1"),
      Item(Url(<<"C">>, <<>>, <<>>), "L3"),
      Item(Url(<<"C">>, <<>>, <<>>), "L4")>>

(***************************************************************************)
(* URLTree.  tree is the sequence of all URLTree objects ever created; a   *)
(* node is [root, urls]: root = <<>> for None or <<record>>, urls the      *)
(* insertion-ordered dict as a sequence of [key, node].                    *)
(***************************************************************************)
NewTree == [root |-> <<>>, urls |-> <<>>]

\* the result of a statement sequence: S holds the one outcome of the later
\* statements, computed from the state the earlier statements left
Then(S) == CHOOSE st \in S : TRUE

TreeRoot == 1

\* position of key in an insertion-ordered dict, 0 when absent
RECURSIVE KeyIndex(_, _, _)
KeyIndex(urls, key, i) ==
    IF i > Len(urls) THEN 0
    ELSE IF urls[i].key = key THEN i
    ELSE KeyIndex(urls, key, i + 1)

HasKey(urls, key) == KeyIndex(urls, key, 1) > 0

Get(urls, key) == urls[KeyIndex(urls, key, 1)].node

\* the walk of add_url: the tree and the node reached after the segments
RECURSIVE Walk(_, _, _)
Walk(t, current_tree, segments) ==
    IF Len(segments) = 0 THEN [t |-> t, node |-> current_tree]
    ELSE LET path_segment == segments[1]
         IN IF HasKey(t[current_tree].urls, path_segment)
            THEN Walk(t, Get(t[current_tree].urls, path_segment), Tail(segments))
            ELSE LET fresh == Len(t) + 1
                 IN Then({Walk(t1, fresh, Tail(segments)) :
                          t1 \in {Append([t EXCEPT ![current_tree].urls =
                                             Append(@, [key |-> path_segment,
                                                        node |-> fresh])],
                                         NewTree)}})

\* add_url that creates the path and sets no owning record
add_url_unowned(t, url) == Walk(t, TreeRoot, get_path_segments(url.url)).t

add_url(t, url) ==
    Then({[w.t EXCEPT ![w.node].root = <<url>>] :
          w \in {Walk(t, TreeRoot, get_path_segments(url.url))}})

\* find_missing that also skips the children of the scheme nodes
RECURSIVE find_missing_deeper(_, _, _)
RECURSIVE FindMissingDeeperIn(_, _, _, _)

FindMissingDeeperIn(t, urls, segments, i) ==
    IF i > Len(urls) THEN <<>>
    ELSE find_missing_deeper(t, urls[i].node, Append(segments, urls[i].key))
         \o FindMissingDeeperIn(t, urls, segments, i + 1)

find_missing_deeper(t, self, segments) ==
    (IF t[self].root = <<>> /\ Len(segments) > 2
     THEN << [url |-> build_url(segments), node |-> self] >>
     ELSE <<>>)
    \o FindMissingDeeperIn(t, t[self].urls, segments, 1)

\* a complete run of find_missing() on a tree nobody changes meanwhile
RECURSIVE find_missing(_, _, _)
RECURSIVE FindMissingIn(_, _, _, _)

FindMissingIn(t, urls, segments, i) ==
    IF i > Len(urls) THEN <<>>
    ELSE find_missing(t, urls[i].node, Append(segments, urls[i].key))
         \o FindMissingIn(t, urls, segments, i + 1)

find_missing(t, self, segments) ==
    (IF t[self].root = <<>> /\ Len(segments) > 1
     THEN << [url |-> build_url(segments), node |-> self] >>
     ELSE <<>>)
    \o FindMissingIn(t, t[self].urls, segments, 1)

(***************************************************************************)
(* RawSettingsURL.add_alias and URLTree.add_alias.  The state an alias     *)
(* call works on is [t, al, ov, err]: the tree, alias_localizations,       *)
(* urls_to_override and the exception raised, if any.                      *)
(***************************************************************************)
\* while override_idx < len(urls_to_override): delete the entries with the url
RECURSIVE WithoutUrl(_, _)
WithoutUrl(overrides, url) ==
    IF Len(overrides) = 0 THEN <<>>
    ELSE IF overrides[1].url = url THEN WithoutUrl(Tail(overrides), url)
    ELSE <<overrides[1]>> \o WithoutUrl(Tail(overrides), url)

\* RawSettingsURL.add_alias that forgets to register the alias localizations
record_add_alias_unregistered(st, self, url) ==
    [st EXCEPT !.t[self].root[1].aliases = Append(@, url),
               !.ov = WithoutUrl(@, url)]

\* RawSettingsURL.add_alias(url) on the record of node self
record_add_alias(st, self, url) ==
    [st EXCEPT !.t[self].root[1].aliases = Append(@, url),
               !.al = Put(@, url, st.t[self].root[1].localized_labels),
               !.ov = WithoutUrl(@, url)]

RECURSIVE add_alias(_, _, _, _, _, _, _)
RECURSIVE AliasChildren(_, _, _, _, _, _)

\* for url_key, child_tree in self.urls.items(): child_tree.add_alias(...)
AliasChildren(st, urls, aliased_url_segments, alias_segments, recursive, i) ==
    IF i > Len(urls) \/ st.err # NoError THEN st
    ELSE LET child_url   == build_url(Append(aliased_url_segments, urls[i].key))
             child_alias == build_url(Append(alias_segments, urls[i].key))
         IN IF child_url = IndexError \/ child_alias = IndexError
            THEN [st EXCEPT !.err = "IndexError"]
            ELSE Then({AliasChildren(st1, urls, aliased_url_segments, alias_segments,
                                     recursive, i + 1) :
                       st1 \in {add_alias(st, urls[i].node, child_url, child_alias,
                                          recursive, TRUE, <<>>)}})

\* self.add_alias(url, alias, recursive, path_segments_rev); unset is TRUE when
\* path_segments_rev is None, else rest holds the segments still to be popped
add_alias(st, self, url, alias, recursive, unset, rest) ==
    IF st.t[self].root # <<>> /\ st.t[self].root[1].url = url
    THEN Then({IF recursive
               THEN AliasChildren(st1, st1.t[self].urls, get_path_segments(url),
                                  get_path_segments(alias), recursive, 1)
               ELSE st1 :
               st1 \in {record_add_alias(st, self, alias)}})
    ELSE LET path_segments == IF unset THEN get_path_segments(url) ELSE rest
         IN IF Len(path_segments) = 0
            THEN [st EXCEPT !.err = "IndexError"]
            ELSE LET next_segment == path_segments[1]
                 IN IF HasKey(st.t[self].urls, next_segment)
                    THEN add_alias(st, Get(st.t[self].urls, next_segment), url, alias,
                                   recursive, FALSE, Tail(path_segments))
                    ELSE st

(***************************************************************************)
(* add_override and find_missing_urls.  An override is a record holding    *)
(* the keys its JSON object has.  The state a pass works on is             *)
(* [t, ov, err].                                                           *)
(***************************************************************************)
DEFAULT_MANIFEST ==
    <<"/System/Library/PreferenceManifestsInternal/AccessibilitySettingsSearch.bundle/SettingsSearchManifest-com.apple.AccessibilitySettings">>

\* str(Path(s))
PathStr(s) == IF s = <<>> THEN <<".">> ELSE s

removesuffix(s, suffix) ==
    IF Len(s) > 0 /\ s[Len(s)] = suffix THEN Front(s) ELSE s

\* the labels a manifest's strings hold for a label id
LabelsOf(strings, label_id) ==
    [lang \in {l \in DOMAIN strings : label_id \in DOMAIN strings[l]} |->
        strings[lang][label_id]]

add_override(st, mans, override) ==
    LET has_id       == "label_id" \in DOMAIN override
        has_manifest == "manifest" \in DOMAIN override
        manifest_path_str ==
            IF has_manifest THEN override.manifest \o <<".plist">> ELSE <<>>
        override_url ==
            RawSettingsURL(override.url, IF has_id THEN override.label_id ELSE "",
                           PathStr(manifest_path_str))
    IN IF has_id
       THEN IF ~has_manifest \/ override.manifest \notin DOMAIN mans
            THEN [st EXCEPT !.err = "KeyError"]
            ELSE [st EXCEPT !.t = add_url(st.t,
                     [override_url EXCEPT !.localized_labels =
                         LabelsOf(mans[override.manifest], override.label_id)])]
       ELSE IF "label" \notin DOMAIN override
            THEN [st EXCEPT !.err = "KeyError"]
            ELSE [st EXCEPT !.t = add_url(st.t,
                     [override_url EXCEPT !.localized_labels = override.label])]

\* for gap_override in gap_overrides: if gap_override["url"] == missing_url_str
RECURSIVE ApplyGapOverrides(_, _, _, _, _)
ApplyGapOverrides(st, mans, gaps, missing_url_str, i) ==
    IF i > Len(gaps) \/ st.err # NoError THEN st
    ELSE IF gaps[i].url = missing_url_str
    THEN Then({ApplyGapOverrides(st1, mans, gaps, missing_url_str, i + 1) :
               st1 \in {add_override(st, mans, gaps[i])}})
    ELSE ApplyGapOverrides(st, mans, gaps, missing_url_str, i + 1)

HasGapOverride(gaps, missing_url_str) ==
    \E i \in 1..Len(gaps) : gaps[i].url = missing_url_str

\* last_segment == second_last_segment or ... (the similar-child test)
SimilarChild(segments) ==
    LET last_segment        == segments[Len(segments)]
        second_last_segment == segments[Len(segments) - 1]
    IN \/ last_segment = second_last_segment
       \/ last_segment = <<"#">> \o second_last_segment
       \/ last_segment = <<"#", "NumericalPreferenceSwitcherIdentifier">>
       \/ last_segment = <<"#", "NumericalPreferencePickerGroupIdentifier">>

\* for subtree in missing_url_tree.urls.values(): the loop state is
\* [st, override (new_override), found (found_similar_child)]
RECURSIVE SimilarChildLoop(_, _, _, _)
SimilarChildLoop(loop, mans, urls, i) ==
    IF i > Len(urls) \/ loop.found \/ loop.st.err # NoError THEN loop
    ELSE LET subtree == loop.st.t[urls[i].node]
         IN IF subtree.root = <<>>
            THEN SimilarChildLoop(loop, mans, urls, i + 1)
            ELSE LET with_manifest ==
                         [k \in DOMAIN loop.override \cup {"manifest"} |->
                             IF k = "manifest"
                             THEN removesuffix(subtree.root[1].manifest_path, ".plist")
                             ELSE loop.override[k]]
                     override_url_segments == get_path_segments(subtree.root[1].url)
                 IN IF Len(override_url_segments) < 2
                    THEN [loop EXCEPT !.st.err = "IndexError"]
                    ELSE IF SimilarChild(override_url_segments)
                    THEN LET with_id ==
                                 [k \in DOMAIN with_manifest \cup {"label_id"} |->
                                     IF k = "label_id" THEN subtree.root[1].label_id
                                     ELSE with_manifest[k]]
                         IN [st |-> add_override(loop.st, mans, with_id),
                             override |-> with_id, found |-> TRUE]
                    ELSE Then({SimilarChildLoop(loop1, mans, urls, i + 1) :
                               loop1 \in {[loop EXCEPT !.override = with_manifest]}})

\* child_url_hints: the label ids of the owned children, by segment
RECURSIVE ChildHints(_, _, _)
ChildHints(t, urls, i) ==
    IF i > Len(urls) THEN <<>>
    ELSE (IF t[urls[i].node].root # <<>>
          THEN << [key |-> urls[i].key, label_id |-> t[urls[i].node].root[1].label_id] >>
          ELSE <<>>)
         \o ChildHints(t, urls, i + 1)

\* the entry written to the needs-overrides list
ReportEntry(t, new_override, urls) ==
    LET hints == ChildHints(t, urls, 1)
        keys  == DOMAIN new_override \cup {"manifest", "label_id", "label"}
                 \cup (IF Len(hints) > 0 THEN {"child_urls"} ELSE {})
    IN [k \in keys |->
           CASE k = "url" -> new_override.url
             [] k = "manifest" -> IF "manifest" \in DOMAIN new_override
                                  THEN new_override.manifest ELSE DEFAULT_MANIFEST
             [] k = "label_id" -> ""
             [] k = "label" -> [l \in {"en"} |-> Str("")]
             [] k = "child_urls" -> hints]

\* the body of the loop of find_missing_urls for one yielded pair
HandleMissing(st, mans, ignored, al, gaps, missing_url_str, missing_url_tree) ==
    IF missing_url_str \in ignored THEN st
    ELSE IF missing_url_str \in DOMAIN al
    THEN [st EXCEPT !.t[missing_url_tree].root =
             << [RawSettingsURL(missing_url_str, "", PathStr(<<>>))
                    EXCEPT !.localized_labels = al[missing_url_str]] >>]
    ELSE IF HasGapOverride(gaps, missing_url_str)
    THEN ApplyGapOverrides(st, mans, gaps, missing_url_str, 1)
    ELSE LET urls == st.t[missing_url_tree].urls
         IN Then({IF loop.found \/ loop.st.err # NoError THEN loop.st
                  ELSE [st EXCEPT !.ov = Append(@, ReportEntry(st.t, loop.override,
                                                               urls))] :
                  loop \in {SimilarChildLoop(
                               [st |-> st, override |-> [url |-> missing_url_str],
                                found |-> FALSE],
                               mans, urls, 1)}})

\* find_missing_urls: the generator find_missing runs interleaved with the loop
\* body; a node is tested when the generator reaches it, and its children are
\* listed (list(self.urls.items())) after the loop body has handled its pair
RECURSIVE MissingPass(_, _, _, _, _, _, _)
RECURSIVE MissingPassIn(_, _, _, _, _, _, _, _)

MissingPassIn(st, mans, ignored, al, gaps, urls, segments, i) ==
    IF i > Len(urls) \/ st.err # NoError THEN st
    ELSE Then({MissingPassIn(st1, mans, ignored, al, gaps, urls, segments, i + 1) :
               st1 \in {MissingPass(st, mans, ignored, al, gaps, urls[i].node,
                                    Append(segments, urls[i].key))}})

MissingPass(st, mans, ignored, al, gaps, self, segments) ==
    LET yields == st.t[self].root = <<>> /\ Len(segments) > 1
    IN Then({IF st1.err # NoError THEN st1
             ELSE MissingPassIn(st1, mans, ignored, al, gaps, st1.t[self].urls,
                                segments, 1) :
             st1 \in {IF ~yields THEN st
                      ELSE IF build_url(segments) = IndexError
                      THEN [st EXCEPT !.err = "IndexError"]
                      ELSE HandleMissing(st, mans, ignored, al, gaps,
                                         build_url(segments), self)}})

find_missing_urls(st, mans, ignored, al, gaps) ==
    MissingPass(st, mans, ignored, al, gaps, TreeRoot, <<>>)

(***************************************************************************)
(* Root flattening: prefs_scheme.urls.update(root_root.urls) and           *)
(* del prefs_scheme.urls["ROOT"].                                          *)
(***************************************************************************)
\* dict.update: a key already there keeps its place and takes the new value
RECURSIVE DictUpdate(_, _)
DictUpdate(urls, other) ==
    IF Len(other) = 0 THEN urls
    ELSE LET i == KeyIndex(urls, other[1].key, 1)
         IN DictUpdate(IF i > 0 THEN [urls EXCEPT ![i] = other[1]]
                       ELSE Append(urls, other[1]),
                       Tail(other))

\* del urls[key]
DictDel(urls, key) ==
    LET i == KeyIndex(urls, key, 1)
    IN SubSeq(urls, 1, i - 1) \o SubSeq(urls, i + 1, Len(urls))

flatten_root(t) ==
    IF ~HasKey(t[TreeRoot].urls, <<"prefs">>) THEN t
    ELSE LET prefs_scheme == Get(t[TreeRoot].urls, <<"prefs">>)
         IN IF ~HasKey(t[prefs_scheme].urls, <<"ROOT">>) THEN t
            ELSE LET root_root == Get(t[prefs_scheme].urls, <<"ROOT">>)
                 IN [t EXCEPT ![prefs_scheme].urls =
                        DictDel(DictUpdate(@, t[root_root].urls), <<"ROOT">>)]

(***************************************************************************)
(* Rendering: sanitize_key, URLTree.build_localized_tree and               *)
(* URLTree.build_markdown_lines.  A label is a string of the program kept  *)
(* whole; a line of the outline is the sequence of its pieces.             *)
(***************************************************************************)
FALLBACK_LOCALE == "en"

SEPARATOR == " → "

ALIAS_SEPARATOR == " or "

UNKNOWN_PLACEHOLDER == "UNKNOWN_LABEL"

DEVICE_TYPES == <<"iphone", "ipad", "ipod", "mac", "applevision", "other">>

\* for device_type in DEVICE_TYPES: if device_type in device_specific_labels
RECURSIVE FirstDeviceLabel(_, _)
FirstDeviceLabel(device_specific_labels, i) ==
    IF i > Len(DEVICE_TYPES) THEN UNKNOWN_PLACEHOLDER
    ELSE IF DEVICE_TYPES[i] \in DOMAIN device_specific_labels
    THEN device_specific_labels[DEVICE_TYPES[i]]
    ELSE FirstDeviceLabel(device_specific_labels, i + 1)

sanitize_key(key) ==
    IF key.t = "str" THEN key.v
    ELSE IF key.t = "dict" /\ "NSStringDeviceSpecificRuleType" \in DOMAIN key.v
    THEN FirstDeviceLabel(key.v.NSStringDeviceSpecificRuleType, 1)
    ELSE UNKNOWN_PLACEHOLDER

\* locale if locale in localized_labels else FALLBACK_LOCALE
LocaleKey(record, locale) ==
    IF locale \in DOMAIN record.localized_labels THEN locale ELSE FALLBACK_LOCALE

\* the subtree's record has a label for the locale or for the fallback locale
HasLabel(subtree, locale) ==
    /\ subtree.root # <<>>
    /\ LocaleKey(subtree.root[1], locale) \in DOMAIN subtree.root[1].localized_labels

\* [self.root.url, *self.root.aliases]
UrlsOf(record) == <<record.url>> \o record.aliases

RECURSIVE build_localized_tree(_, _, _)
RECURSIVE LocalizedChildren(_, _, _, _, _, _)

\* for subtree in self.urls.values(): merge_into(result, key, ...)
LocalizedChildren(t, urls, locale, result, unassigned_id, i) ==
    IF i > Len(urls) THEN result
    ELSE LET subtree == t[urls[i].node]
             key == IF HasLabel(subtree, locale)
                    THEN sanitize_key(subtree.root[1].localized_labels[
                                          LocaleKey(subtree.root[1], locale)])
                    ELSE UNKNOWN_PLACEHOLDER \o "_" \o ToString(unassigned_id)
         IN Then({LocalizedChildren(t, urls, locale, result1,
                                    IF HasLabel(subtree, locale) THEN unassigned_id
                                    ELSE unassigned_id + 1,
                                    i + 1) :
                  result1 \in {merge_into(result, key,
                                         build_localized_tree(t, urls[i].node, locale))}})

\* build_localized_tree that renders an aliased leaf as its URL alone
build_localized_tree_unaliased(t, self, locale) ==
    IF Len(t[self].urls) = 0 /\ t[self].root # <<>>
    THEN Str(t[self].root[1].url)
    ELSE Dict(LocalizedChildren(
                  t, t[self].urls, locale,
                  IF t[self].root # <<>>
                  THEN merge_into(EmptyDict, ROOT_STR, Str(t[self].root[1].url))
                  ELSE EmptyDict,
                  0, 1))

build_localized_tree(t, self, locale) ==
    IF Len(t[self].urls) = 0 /\ t[self].root # <<>>
    THEN IF t[self].root[1].aliases # <<>>
         THEN List(UrlsOf(t[self].root[1]))
         ELSE Str(t[self].root[1].url)
    ELSE Dict(LocalizedChildren(
                  t, t[self].urls, locale,
                  IF t[self].root # <<>>
                  THEN merge_into(EmptyDict, ROOT_STR, Str(t[self].root[1].url))
                  ELSE EmptyDict,
                  0, 1))

\* len(prefix)
RECURSIVE CharLen(_)
CharLen(pieces) == IF Len(pieces) = 0 THEN 0 ELSE Len(pieces[1]) + CharLen(Tail(pieces))

\* the backtick around a URL of a line (written as a quote here)
BACKTICK == "'"

\* ALIAS_SEPARATOR.join of the URLs of a line, each between backticks
RECURSIVE UrlsStr(_)
UrlsStr(urls_for_line) ==
    IF Len(urls_for_line) = 0 THEN <<>>
    ELSE <<BACKTICK>> \o urls_for_line[1] \o <<BACKTICK>>
         \o (IF Len(urls_for_line) > 1 THEN <<ALIAS_SEPARATOR>> ELSE <<>>)
         \o UrlsStr(Tail(urls_for_line))

\* the label build_markdown_lines writes for an owned node
LineLabel(record, locale) ==
    IF LocaleKey(record, locale) \in DOMAIN record.localized_labels
    THEN sanitize_key(record.localized_labels[LocaleKey(record, locale)])
    ELSE UNKNOWN_PLACEHOLDER

\* prefix after the node's own label was added
LabelledPrefix(subtree, locale, prefix, should_label) ==
    IF subtree.root # <<>> THEN Append(prefix, LineLabel(subtree.root[1], locale))
    ELSE IF should_label \/ CharLen(prefix) > 2 THEN Append(prefix, UNKNOWN_PLACEHOLDER)
    ELSE prefix

RECURSIVE build_markdown_lines(_, _, _, _, _)
RECURSIVE MarkdownChildren(_, _, _, _, _)

\* for child in self.urls.values(): yield from child.build_markdown_lines(...)
MarkdownChildren(t, urls, locale, prefix, i) ==
    IF i > Len(urls) THEN <<>>
    ELSE build_markdown_lines(t, urls[i].node, locale, prefix, TRUE)
         \o MarkdownChildren(t, urls, locale, prefix, i + 1)

\* build_markdown_lines that leaves an un-owned node out of the label chain
build_markdown_lines_unchained(t, self, locale, prefix, should_label) ==
    (IF t[self].root # <<>>
     THEN << LabelledPrefix(t[self], locale, prefix, should_label) \o <<": ">>
             \o UrlsStr(UrlsOf(t[self].root[1])) >>
     ELSE <<>>)
    \o MarkdownChildren(
           t, t[self].urls, locale,
           (IF t[self].root # <<>>
            THEN LabelledPrefix(t[self], locale, prefix, should_label) ELSE prefix)
           \o (IF should_label THEN <<SEPARATOR>> ELSE <<>>),
           1)

build_markdown_lines(t, self, locale, prefix, should_label) ==
    (IF t[self].root # <<>>
     THEN << LabelledPrefix(t[self], locale, prefix, should_label) \o <<": ">>
             \o UrlsStr(UrlsOf(t[self].root[1])) >>
     ELSE <<>>)
    \o MarkdownChildren(
           t, t[self].urls, locale,
           LabelledPrefix(t[self], locale, prefix, should_label)
           \o (IF should_label THEN <<SEPARATOR>> ELSE <<>>),
           1)

\* all_locales: the locales some loaded manifest has strings for
all_locales(mans) == UNION {DOMAIN mans[m] : m \in DOMAIN mans}

\* for scheme, scheme_subtree in tree.urls.items(): the JSON and the Markdown
export(t, locale) ==
    [i \in 1..Len(t[TreeRoot].urls) |->
        [scheme |-> t[TreeRoot].urls[i].key,
         json   |-> build_localized_tree(t, t[TreeRoot].urls[i].node, locale),
         md     |-> build_markdown_lines(t, t[TreeRoot].urls[i].node, locale,
                                         <<"- ">>, FALSE)]]

\* the nodes reachable from a node, each with its segment path
RECURSIVE Reach(_, _, _)
Reach(t, node, path) ==
    {[node |-> node, path |-> path]}
    \cup UNION {Reach(t, t[node].urls[i].node, Append(path, t[node].urls[i].key)) :
                   i \in 1..Len(t[node].urls)}

Range(seq) == {seq[i] : i \in 1..Len(seq)}

TreeInit ==
    /\ tree = <<NewTree>>
    /\ nurls = 0
    /\ lastItem = 0
    /\ manifests = NoManifests

PipeIdle ==
    /\ pc = "off"
    /\ err = NoError
    /\ ignored_urls = {}
    /\ gap_overrides = <<>>
    /\ additional_overrides = <<>>
    /\ alias_localizations = NoManifests
    /\ urls_to_override = <<>>
    /\ naliases = 0
    /\ acall = <<>>
    /\ pbefore = <<>>
    /\ fbefore = <<>>
    /\ exported = <<>>

GapIdle ==
    /\ gpc = "off"
    /\ missing = <<>>
    /\ gprev = <<>>
    /\ gfill = <<>>

GapStart ==
    /\ gpc = "build"
    /\ missing = <<>>
    /\ gprev = <<>>
    /\ gfill = <<>>

\* load_bundle: a manifest item gets its labels and is added to the tree
GapAddUrl(i) ==
    /\ gpc = "build"
    /\ nurls < MaxUrls
    /\ i > lastItem
    /\ tree' = add_url(tree, AssignLabels(
                   RawSettingsURL(ManifestItems[i].searchURL, ManifestItems[i].label,
                                  ManifestPath),
                   ManifestStrings))
    /\ nurls' = nurls + 1
    /\ lastItem' = i
    /\ manifests' = Put(manifests, ManifestName, ManifestStrings)
    /\ UNCHANGED <<codecVars, mergeVars, gapVars, pipeVars>>

\* list(tree.find_missing())
GapScan ==
    /\ gpc = "build"
    /\ missing' = find_missing(tree, TreeRoot, <<>>)
    /\ gpc' = "scanned"
    /\ UNCHANGED <<codecVars, mergeVars, treeVars, gprev, gfill, pipeVars>>

\* list(tree.find_missing()) once more on the same tree
GapRescan ==
    /\ gpc = "scanned"
    /\ gprev' = missing
    /\ missing' = find_missing(tree, TreeRoot, <<>>)
    /\ gpc' = "rescanned"
    /\ UNCHANGED <<codecVars, mergeVars, treeVars, gfill, pipeVars>>

\* tree.add_url of a record whose URL is the one reported for a node
GapFill(i, id) ==
    /\ gpc = "rescanned"
    /\ i \in 1..Len(missing)
    /\ tree' = add_url(tree, AssignLabels(RawSettingsURL(missing[i].url, id, ManifestPath),
                                          ManifestStrings))
    /\ gfill' = <<missing[i]>>
    /\ gpc' = "filled"
    /\ UNCHANGED <<codecVars, mergeVars, nurls, lastItem, manifests, missing, gprev,
                   pipeVars>>

\* list(tree.find_missing()) after the gap was filled
GapScanFilled ==
    /\ gpc = "filled"
    /\ gprev' = missing
    /\ missing' = find_missing(tree, TreeRoot, <<>>)
    /\ gpc' = "refilled"
    /\ UNCHANGED <<codecVars, mergeVars, treeVars, gfill, pipeVars>>

GapNext ==
    \/ \E i \in 1..Len(ManifestItems) : GapAddUrl(i)
    \/ GapScan
    \/ GapRescan
    \/ \E i \in 1..MaxUrls * 3, id \in LabelIds : GapFill(i, id)
    \/ GapScanFilled


(***************************************************************************)
(* The pipeline script: load the bundles, inject add.json, first           *)
(* missing-node pass, alias.json, second pass, root flattening.            *)
(***************************************************************************)
GapByLabel == [url |-> Url(<<"A">>, <<>>, <<>>), label |-> [l \in {"en"} |-> Str("Gap")]]

GapById ==
    [url |-> Url(<<"A">>, << <<"a">> >>, <<>>), label_id |-> "L1",
     manifest |-> ManifestName]

AddByLabel ==
    [url |-> Url(<<"A">>, << <<"b">> >>, <<>>), label |-> [l \in {"en"} |-> Str("Add")]]

\* an add.json entry with its own label, for a URL that repeats its last segment
AddSimilar ==
    [url |-> Url(<<"A">>, << <<"a">>, <<"a">> >>, <<>>),
     label |-> [l \in {"en"} |-> Str("Add")]]

\* the override tables of a run: ignore.txt, gaps.json, add.json
Configs ==
    {[ignored |-> {}, gaps |-> <<>>, add |-> <<>>],
     [ignored |-> {}, gaps |-> <<>>, add |-> <<AddSimilar>>],
     [ignored |-> {Url(<<"ROOT">>, <<>>, <<>>)}, gaps |-> <<GapByLabel>>, add |-> <<>>],
     [ignored |-> {Url(<<"A">>, <<>>, <<>>)}, gaps |-> <<GapById>>,
      add |-> <<AddByLabel>>],
     [ignored |-> {}, gaps |-> <<GapById, GapByLabel>>, add |-> <<>>]}

\* the entries of alias.json: original URL, alias, recursive
AliasRule(u, a, r) == [url |-> u, alias |-> a, recursive |-> r]

AliasRules ==
    {AliasRule(Url(<<"A">>, <<>>, <<>>), Url(<<"C">>, <<>>, <<>>), TRUE),
     AliasRule(NavURL(<<"A">>, <<>>, <<>>), Url(<<"A">>, <<>>, <<>>), TRUE),
     AliasRule(Url(<<"A">>, << <<"a">> >>, <<>>), NavURL(<<"A">>, << <<"a">> >>, <<>>),
               FALSE),
     AliasRule(Url(<<"Z">>, <<>>, <<>>), Url(<<"C">>, <<>>, <<>>), FALSE),
     AliasRule(Url(<<"A">>, << <<"a">> >>, <<>>) \o <<"/">>, Url(<<"C">>, <<>>, <<>>),
               FALSE)}

\* len() of a localization entry
EntryLen(entry) == IF entry.t = "str" THEN Len(entry.v) ELSE Cardinality(DOMAIN entry.v)

\* Bundle.load and load_bundle for one manifest item: [t, err]
load_item(t, item, strings) ==
    LET url == RawSettingsURL(item.searchURL, item.label, ManifestPath)
    IN IF \E locale \in DOMAIN strings :
             /\ url.label_id \in DOMAIN strings[locale]
             /\ EntryLen(strings[locale][url.label_id]) = 0
       THEN [t |-> t, err |-> "Exception"]
       ELSE [t |-> add_url(t, AssignLabels(url, strings)), err |-> NoError]

\* for additional_override in additional_overrides: add_override(...)
RECURSIVE AddOverrides(_, _, _, _)
AddOverrides(st, mans, overrides, i) ==
    IF i > Len(overrides) \/ st.err # NoError THEN st
    ELSE Then({AddOverrides(st1, mans, overrides, i + 1) :
               st1 \in {add_override(st, mans, overrides[i])}})

After(st, next) == IF st.err = NoError THEN next ELSE "crashed"

PipeStart ==
    /\ pc = "load"
    /\ err = NoError
    /\ \E c \in Configs :
          /\ ignored_urls = c.ignored
          /\ gap_overrides = c.gaps
          /\ additional_overrides = c.add
    /\ alias_localizations = NoManifests
    /\ urls_to_override = <<>>
    /\ naliases = 0
    /\ acall = <<>>
    /\ pbefore = <<>>
    /\ fbefore = <<>>
    /\ exported = <<>>

\* load_bundle: one more item of the manifest
LoadItem(i) ==
    /\ pc = "load"
    /\ nurls < MaxUrls
    /\ i > lastItem
    /\ \E r \in {load_item(tree, ManifestItems[i], ManifestStrings)} :
          /\ tree' = r.t
          /\ err' = r.err
          /\ pc' = After(r, "load")
    /\ nurls' = nurls + 1
    /\ lastItem' = i
    /\ manifests' = Put(manifests, ManifestName, ManifestStrings)
    /\ UNCHANGED <<codecVars, mergeVars, gapVars, inputVars, alias_localizations,
                   urls_to_override, naliases, acall, pbefore, fbefore,
                   exported>>

\* the additional overrides of add.json
InjectOverrides ==
    /\ pc = "load"
    /\ \E st \in {AddOverrides([t |-> tree, ov |-> urls_to_override, err |-> NoError],
                                manifests, additional_overrides, 1)} :
          /\ tree' = st.t
          /\ err' = st.err
          /\ pc' = After(st, "added")
    /\ UNCHANGED <<codecVars, mergeVars, gapVars, nurls, lastItem, manifests, inputVars,
                   alias_localizations, urls_to_override, naliases, acall, pbefore,
                   fbefore, exported>>

\* find_missing_urls(), the first time
FirstPass ==
    /\ pc = "added"
    /\ \E st \in {find_missing_urls([t |-> tree, ov |-> urls_to_override,
                                      err |-> NoError],
                                     manifests, ignored_urls, alias_localizations,
                                     gap_overrides)} :
          /\ tree' = st.t
          /\ urls_to_override' = st.ov
          /\ err' = st.err
          /\ pc' = After(st, "pass1")
    /\ pbefore' = <<tree>>
    /\ UNCHANGED <<codecVars, mergeVars, gapVars, nurls, lastItem, manifests, inputVars,
                   alias_localizations, naliases, acall, fbefore, exported>>

\* tree.add_alias(orig_url, alias, aliases_are_recursive)
AddAlias(rule) ==
    /\ pc \in {"pass1", "alias"}
    /\ naliases < MaxAliases
    /\ \E st \in {add_alias([t |-> tree, al |-> alias_localizations,
                              ov |-> urls_to_override, err |-> NoError],
                             TreeRoot, rule.url, rule.alias, rule.recursive, TRUE, <<>>)} :
          /\ tree' = st.t
          /\ alias_localizations' = st.al
          /\ urls_to_override' = st.ov
          /\ err' = st.err
          /\ pc' = After(st, "alias")
    /\ naliases' = naliases + 1
    /\ acall' = << [url |-> rule.url, alias |-> rule.alias, recursive |-> rule.recursive,
                    t |-> tree, al |-> alias_localizations, ov |-> urls_to_override] >>
    /\ pbefore' = <<>>
    /\ UNCHANGED <<codecVars, mergeVars, gapVars, nurls, lastItem, manifests, inputVars,
                   fbefore, exported>>

\* urls_to_override.clear(); find_missing_urls()
SecondPass ==
    /\ pc \in {"pass1", "alias"}
    /\ \E st \in {find_missing_urls([t |-> tree, ov |-> <<>>, err |-> NoError],
                                     manifests, ignored_urls, alias_localizations,
                                     gap_overrides)} :
          /\ tree' = st.t
          /\ urls_to_override' = st.ov
          /\ err' = st.err
          /\ pc' = After(st, "report")
    /\ pbefore' = <<tree>>
    /\ acall' = <<>>
    /\ UNCHANGED <<codecVars, mergeVars, gapVars, nurls, lastItem, manifests, inputVars,
                   alias_localizations, naliases, fbefore, exported>>

\* move anything under prefs:root=ROOT to the root level
RootFlatten ==
    /\ pc = "report"
    /\ tree' = flatten_root(tree)
    /\ fbefore' = <<tree>>
    /\ pbefore' = <<>>
    /\ pc' = "flat"
    /\ UNCHANGED <<codecVars, mergeVars, gapVars, nurls, lastItem, manifests, inputVars,
                   err, alias_localizations, urls_to_override, naliases, acall,
                   exported>>

\* the export of the JSON and Markdown files of every locale and scheme
Render ==
    /\ pc = "flat"
    /\ exported' = [locale \in all_locales(manifests) |-> export(tree, locale)]
    /\ pc' = "rendered"
    /\ UNCHANGED <<codecVars, mergeVars, gapVars, treeVars, inputVars, err,
                   alias_localizations, urls_to_override, naliases, acall, pbefore,
                   fbefore>>

PipeNext ==
    \/ \E i \in 1..Len(ManifestItems) : LoadItem(i)
    \/ InjectOverrides
    \/ FirstPass
    \/ \E rule \in AliasRules : AddAlias(rule)
    \/ SecondPass
    \/ RootFlatten
    \/ Render

(***************************************************************************)
(* Codec run: parse u, rebuild it, parse the rebuilt URL.                  *)
(***************************************************************************)
CodecIdle ==
    /\ cpc = "off"
    /\ curl = <<>>
    /\ csegs = <<>>
    /\ cbuilt = <<>>
    /\ csegs2 = <<>>

CodecStart ==
    /\ cpc = "start"
    /\ curl \in WellFormedURLs
    /\ csegs = <<>>
    /\ cbuilt = <<>>
    /\ csegs2 = <<>>

CodecParse ==
    /\ cpc = "start"
    /\ csegs' = get_path_segments(curl)
    /\ cpc' = "parsed"
    /\ UNCHANGED <<curl, cbuilt, csegs2, mergeVars, treeVars, gapVars, pipeVars>>

CodecBuild ==
    /\ cpc = "parsed"
    /\ cbuilt' = build_url(csegs)
    /\ cpc' = "built"
    /\ UNCHANGED <<curl, csegs, csegs2, mergeVars, treeVars, gapVars, pipeVars>>

CodecReparse ==
    /\ cpc = "built"
    /\ csegs2' = get_path_segments(cbuilt)
    /\ cpc' = "reparsed"
    /\ UNCHANGED <<curl, csegs, cbuilt, mergeVars, treeVars, gapVars, pipeVars>>

CodecNext == CodecParse \/ CodecBuild \/ CodecReparse

CodecInit == CodecStart /\ MergeInit /\ TreeInit /\ GapIdle /\ PipeIdle

SpecCodec == CodecInit /\ [][CodecNext]_vars

MergeRunInit == MergeInit /\ CodecIdle /\ TreeInit /\ GapIdle /\ PipeIdle

SpecMerge == MergeRunInit /\ [][MergeNext]_vars

GapInit == GapStart /\ TreeInit /\ CodecIdle /\ MergeInit /\ PipeIdle

SpecGaps == GapInit /\ [][GapNext]_vars

PipeInit == PipeStart /\ TreeInit /\ GapIdle /\ CodecIdle /\ MergeInit

SpecPipeline == PipeInit /\ [][PipeNext]_vars

\* C1: for every well-formed URL u, re-parsing build_url(get_path_segments(u))
\* yields the segments of u again.
C1_RoundTrip == cpc = "reparsed" => csegs2 = csegs

\* C2: every string that was ever merged into the key is still held by the
\* value stored at the key.
C2_NoLoss == MergeKey \in DOMAIN mdict => mstrs \subseteq Leaves(mdict[MergeKey])

C2_Witness ==
    /\ mcount = MaxMerges
    /\ mdict[MergeKey].t = "dict"
    /\ Cardinality(mstrs) = 3
    /\ ROOT_STR \in DOMAIN mdict[MergeKey].v

\* C3: merging the same v a second time leaves c[k] as the first merge left it.
C3_Idempotent == mstage = "twice" => mdict[MergeKey] = mprev[MergeKey]

\* C4: once two distinct strings were merged as strings or lists, the value
\* stored is the sorted list of the distinct strings merged, each once.
C4_SortedDistinct ==
    (mscalar /\ Cardinality(mstrs) >= 2) =>
        /\ mdict[MergeKey].t = "list"
        /\ Len(mdict[MergeKey].v) = Cardinality(mstrs)
        /\ Leaves(mdict[MergeKey]) = mstrs
        /\ \A i \in 1..(Len(mdict[MergeKey].v) - 1) :
               StrLess(mdict[MergeKey].v[i], mdict[MergeKey].v[i + 1])

\* the nodes that own no record and lie deeper than depth, with their paths
Unowned(t, depth) ==
    {r \in Reach(t, TreeRoot, <<>>) : t[r.node].root = <<>> /\ Len(r.path) > depth}

\* the pairs of a run are exactly the un-owned nodes deeper than depth, each
\* once and with build_url of its path
YieldsExactly(pairs, t, depth) ==
    /\ \A r \in Unowned(t, depth) :
          Cardinality({i \in 1..Len(pairs) : pairs[i].node = r.node}) = 1
    /\ \A i \in 1..Len(pairs) :
          \E r \in Unowned(t, depth) :
             pairs[i].node = r.node /\ pairs[i].url = build_url(r.path)

\* C7 (as claimed): find_missing yields exactly the un-owned nodes other than
\* the tree root, the scheme nodes and the children of the scheme nodes.
C7_SkipsFirstLevel == gpc = "scanned" => YieldsExactly(missing, tree, 2)

\* C7 (amended): find_missing yields exactly the un-owned nodes other than the
\* tree root and the scheme nodes, each once, with build_url of its path; an
\* un-owned child of a scheme node is yielded.
C7_SkipsSchemesOnly == gpc = "scanned" => YieldsExactly(missing, tree, 1)

C7_Witness ==
    /\ gpc = "scanned"
    /\ \E i, j \in 1..Len(missing) :
          /\ \E r \in Unowned(tree, 1) : r.node = missing[i].node /\ Len(r.path) = 2
          /\ \E r \in Unowned(tree, 1) : r.node = missing[j].node /\ Len(r.path) = 3

\* C8: a second run on the unmodified tree yields the same pairs, and after
\* add_url of a record with the URL reported for a node that record owns the
\* node and a new run reports every other gap but not this one.
C8_Rerunnable ==
    /\ gpc = "rescanned" => Range(missing) = Range(gprev)
    /\ gpc = "refilled" =>
          /\ tree[gfill[1].node].root # <<>>
          /\ tree[gfill[1].node].root[1].url = gfill[1].url
          /\ gfill[1] \notin Range(missing)
          /\ Range(gprev) \ {gfill[1]} \subseteq Range(missing)

Owned(t) == {r \in Reach(t, TreeRoot, <<>>) : t[r.node].root # <<>>}

\* the owned children of node n before the call carry the alias of n extended
\* by their segment afterwards, and likewise their own owned children
RECURSIVE Propagated(_, _, _, _)
Propagated(before, after, n, alias) ==
    \A i \in 1..Len(before[n].urls) :
        LET child       == before[n].urls[i].node
            child_alias == build_url(Append(get_path_segments(alias),
                                            before[n].urls[i].key))
        IN before[child].root # <<>> =>
              /\ after[child].root # <<>>
              /\ child_alias \in Range(after[child].root[1].aliases)
              /\ Propagated(before, after, child, child_alias)

\* C5: after add_alias(u, a, recursive=True) every owned child of the node that
\* owns u has build_url(segments_of(a) + [s]) among its aliases, and likewise
\* every deeper descendant reached through owned nodes.
C5_AliasPropagated ==
    (acall # <<>> /\ acall[1].recursive) =>
        \A r \in Owned(acall[1].t) :
            acall[1].t[r.node].root[1].url = acall[1].url =>
                Propagated(acall[1].t, tree, r.node, acall[1].alias)

\* C6: add_alias for a URL that no node owns raises nothing and changes neither
\* the tree nor the alias localizations nor the pending overrides.
C6_MissingTargetNoOp ==
    (acall # <<>> /\ \A r \in Owned(acall[1].t) :
                        acall[1].t[r.node].root[1].url # acall[1].url) =>
        /\ err = NoError
        /\ tree = acall[1].t
        /\ alias_localizations = acall[1].al
        /\ urls_to_override = acall[1].ov

\* the URLs registered as aliases of the records in the tree
AliasUrls(t) == UNION {Range(t[r.node].root[1].aliases) : r \in Owned(t)}

\* the un-owned nodes of the tree before the pass whose URL is an alias
AliasGaps(t) == {r \in Unowned(t, 1) : build_url(r.path) \in AliasUrls(t)}

\* node n is owned by a record that carries the labels of a record aliased url
Inherited(t, n, url) ==
    /\ t[n].root # <<>>
    /\ \E r \in Owned(t) :
          /\ url \in Range(t[r.node].root[1].aliases)
          /\ t[n].root[1].localized_labels = t[r.node].root[1].localized_labels

NoAliasReported ==
    \A i \in 1..Len(urls_to_override) : urls_to_override[i].url \notin AliasUrls(tree)

\* C9 (as claimed): the final gap report holds no registered alias URL, and
\* every un-owned node whose URL is such an alias got an owning record with the
\* labels of the aliased record.
C9_AliasesInherit ==
    pc = "report" =>
        /\ NoAliasReported
        /\ \A r \in AliasGaps(pbefore[1]) : Inherited(tree, r.node, build_url(r.path))

\* C9 (amended): the final gap report holds no registered alias URL, and every
\* un-owned node whose URL is such an alias and is not in the ignore list got
\* an owning record with the labels of the aliased record.
C9_AliasesInheritUnlessIgnored ==
    pc = "report" =>
        /\ NoAliasReported
        /\ \A r \in AliasGaps(pbefore[1]) :
              build_url(r.path) \notin ignored_urls =>
                  Inherited(tree, r.node, build_url(r.path))

C9_Witness ==
    /\ pc = "report"
    /\ \E r \in AliasGaps(pbefore[1]) :
          /\ build_url(r.path) \notin ignored_urls
          /\ Inherited(tree, r.node, build_url(r.path))
    /\ Len(urls_to_override) > 0

\* C10: after the flattening every child c of prefs/ROOT is the child c of
\* prefs with its subtree, and the former ROOT node is no child of prefs.
C10_RootFlattened ==
    (/\ pc = "flat"
     /\ HasKey(fbefore[1][TreeRoot].urls, <<"prefs">>)
     /\ HasKey(fbefore[1][Get(fbefore[1][TreeRoot].urls, <<"prefs">>)].urls, <<"ROOT">>)) =>
        LET prefs_scheme == Get(fbefore[1][TreeRoot].urls, <<"prefs">>)
            root_root    == Get(fbefore[1][prefs_scheme].urls, <<"ROOT">>)
        IN /\ \A i \in 1..Len(fbefore[1][root_root].urls) :
                 LET c == fbefore[1][root_root].urls[i]
                 IN /\ HasKey(tree[prefs_scheme].urls, c.key)
                    /\ Get(tree[prefs_scheme].urls, c.key) = c.node
                    /\ \A r \in Reach(fbefore[1], c.node, <<>>) :
                          tree[r.node] = fbefore[1][r.node]
           /\ \A i \in 1..Len(tree[prefs_scheme].urls) :
                 tree[prefs_scheme].urls[i].node # root_root

\* the label of an owned node for a locale: that of the locale, else that of "en"
ResolvedLabel(record, locale) ==
    sanitize_key(IF locale \in DOMAIN record.localized_labels
                 THEN record.localized_labels[locale]
                 ELSE record.localized_labels["en"])

Labelled(record, locale) == {locale, "en"} \cap DOMAIN record.localized_labels # {}

\* the view of node n has the shape the claim gives it
ViewShape(t, n, locale) ==
    LET view == build_localized_tree(t, n, locale)
        kids == {i \in 1..Len(t[n].urls) :
                    /\ t[t[n].urls[i].node].root # <<>>
                    /\ Labelled(t[t[n].urls[i].node].root[1], locale)}
    IN IF Len(t[n].urls) = 0
       THEN t[n].root # <<>> =>
               view = (IF t[n].root[1].aliases = <<>> THEN Str(t[n].root[1].url)
                       ELSE List(<<t[n].root[1].url>> \o t[n].root[1].aliases))
       ELSE /\ view.t = "dict"
            /\ t[n].root # <<>> =>
                  /\ ROOT_STR \in DOMAIN view.v
                  /\ t[n].root[1].url \in Leaves(view.v[ROOT_STR])
            /\ \A i \in kids :
                  LET child == t[n].urls[i].node
                      key   == ResolvedLabel(t[child].root[1], locale)
                  IN /\ key \in DOMAIN view.v
                     /\ Leaves(build_localized_tree(t, child, locale))
                           \subseteq Leaves(view.v[key])
                     /\ (/\ key # ROOT_STR
                         /\ Len(t[n].urls) = Cardinality(kids)
                         /\ \A j \in kids \ {i} :
                               ResolvedLabel(t[t[n].urls[j].node].root[1], locale) # key)
                        => view.v[key] = build_localized_tree(t, child, locale)
            /\ Len(t[n].urls) = Cardinality(kids) =>
                  DOMAIN view.v =
                      (IF t[n].root # <<>> THEN {ROOT_STR} ELSE {})
                      \cup {ResolvedLabel(t[t[n].urls[i].node].root[1], locale) :
                               i \in kids}

\* C11: build_localized_tree gives an owned leaf as its URL, or as the list of
\* its URL and aliases, and a node with children as a mapping with the node's
\* URL under "(root)" and each child's view merged under the child's label
\* (that of the locale, else that of "en"); the files exported are these views.
C11_ViewShape ==
    pc = "rendered" =>
        \A locale \in DOMAIN exported :
            /\ \A r \in Reach(tree, TreeRoot, <<>>) :
                  r.node # TreeRoot => ViewShape(tree, r.node, locale)
            /\ \A i \in 1..Len(exported[locale]) :
                  exported[locale][i].json =
                      build_localized_tree(tree, tree[TreeRoot].urls[i].node, locale)

C11_Witness ==
    /\ pc = "rendered"
    /\ "fr" \in DOMAIN exported
    /\ \E i \in 1..Len(exported["fr"]) :
          LET view == exported["fr"][i].json
          IN /\ view.t = "dict"
             /\ \E key \in DOMAIN view.v :
                   /\ view.v[key].t = "dict"
                   /\ ROOT_STR \in DOMAIN view.v[key].v
                   /\ "Two" \in DOMAIN view.v[key].v
                   /\ view.v[key].v["Two"].t = "list"

\* the label the outline writes for a node: UNKNOWN_LABEL for an un-owned node
\* and for a record that has no label for the locale nor for "en"
OutlineLabel(node, locale) ==
    IF node.root # <<>> /\ Labelled(node.root[1], locale)
    THEN ResolvedLabel(node.root[1], locale)
    ELSE "UNKNOWN_LABEL"

\* the pieces joined by a separator
RECURSIVE Joined(_, _)
Joined(pieces, sep) ==
    IF Len(pieces) = 0 THEN <<>>
    ELSE IF Len(pieces) = 1 THEN pieces[1]
    ELSE pieces[1] \o <<sep>> \o Joined(Tail(pieces), sep)

\* the URLs of a record, each in backticks
Quoted(urls) == [i \in 1..Len(urls) |-> <<BACKTICK>> \o urls[i] \o <<BACKTICK>>]

\* the lines the claim expects for node n under the ancestors' labels: its
\* own line when it is owned, then the lines of its children in order
RECURSIVE Outline(_, _, _, _)
RECURSIVE OutlineOfChildren(_, _, _, _, _)

OutlineOfChildren(t, urls, chain, locale, i) ==
    IF i > Len(urls) THEN <<>>
    ELSE Outline(t, urls[i].node, chain, locale)
         \o OutlineOfChildren(t, urls, chain, locale, i + 1)

Outline(t, n, chain, locale) ==
    (IF t[n].root # <<>>
     THEN << <<"- ">>
             \o Joined([i \in 1..(Len(chain) + 1) |->
                           <<Append(chain, OutlineLabel(t[n], locale))[i]>>], " → ")
             \o <<": ">>
             \o Joined(Quoted(<<t[n].root[1].url>> \o t[n].root[1].aliases), " or ") >>
     ELSE <<>>)
    \o OutlineOfChildren(t, t[n].urls, Append(chain, OutlineLabel(t[n], locale)),
                         locale, 1)

\* C12: the Markdown of a scheme subtree is one line per owned node, parents
\* before children in insertion order, each "- ", the labels of the ancestors
\* below the scheme node and its own joined by " → " (UNKNOWN_LABEL for an
\* un-owned ancestor or an unresolvable label), ": ", and the URL and aliases
\* in backticks joined by " or ".
C12_Outline ==
    pc = "rendered" =>
        \A locale \in DOMAIN exported :
            \A i \in 1..Len(exported[locale]) :
                exported[locale][i].md =
                    OutlineOfChildren(tree, tree[tree[TreeRoot].urls[i].node].urls,
                                      <<>>, locale, 1)

C12_Witness ==
    /\ pc = "rendered"
    /\ \E locale \in DOMAIN exported :
          \E i \in 1..Len(exported[locale]) :
             /\ Len(exported[locale][i].md) > 1
             /\ \E j \in 1..Len(exported[locale][i].md) :
                   /\ "UNKNOWN_LABEL" \in Range(exported[locale][i].md[j])
                   /\ " → " \in Range(exported[locale][i].md[j])
                   /\ " or " \in Range(exported[locale][i].md[j])

\* C13: a record that would get a localization entry whose resolved label is
\* the empty string (a plain empty string, or a device-variant map whose
\* preferred variant is empty) aborts the run, so no record of the tree at
\* render time has an empty resolved label for any locale.
C13_NoEmptyLabel ==
    pc = "rendered" =>
        \A r \in Owned(tree) :
            \A locale \in DOMAIN tree[r.node].root[1].localized_labels :
                sanitize_key(tree[r.node].root[1].localized_labels[locale]) # ""

\* every manifest an override table names is loaded
ManifestsLoaded(overrides) ==
    \A i \in 1..Len(overrides) :
        "manifest" \in DOMAIN overrides[i] => overrides[i].manifest \in DOMAIN manifests

\* C14: given override tables whose named manifests are all loaded, a
\* missing-node pass raises no error, and at its end every node find_missing
\* reported whose URL is not ignored owns a record or has an entry with its
\* URL in the gap report.
C14_GapsNeverFail ==
    (/\ pbefore # <<>>
     /\ ManifestsLoaded(gap_overrides)
     /\ ManifestsLoaded(additional_overrides)) =>
        /\ err = NoError
        /\ \A m \in Range(find_missing(pbefore[1], TreeRoot, <<>>)) :
              m.url \notin ignored_urls =>
                  \/ tree[m.node].root # <<>>
                  \/ \E i \in 1..Len(urls_to_override) : urls_to_override[i].url = m.url

\* the reachable nodes that own no record and have no children
Hollow(t) ==
    {r \in Reach(t, TreeRoot, <<>>) : t[r.node].root = <<>> /\ Len(t[r.node].urls) = 0}

\* a tree operation of the pipeline has completed
Completed == pc \in {"load", "added", "pass1", "alias", "report", "flat"} /\ err = NoError

\* C15: after every completed tree operation (add_url, add_alias, each
\* missing-node pass, root flattening) no node other than the tree root has
\* both no owning record and no children.
C15_LeavesOwned ==
    Completed => \A r \in Hollow(tree) : r.node = TreeRoot

\* C15 as the code has it: after every completed tree operation no node other
\* than the tree root and the scheme nodes has both no owning record and no
\* children.
C15_LeavesOwnedBelowSchemes ==
    Completed => \A r \in Hollow(tree) : Len(r.path) <= 1

C15_Witness ==
    /\ pc = "flat"
    /\ err = NoError
    /\ fbefore[1] # tree
    /\ naliases > 0
    /\ \E r \in Reach(tree, TreeRoot, <<>>) :
          /\ Len(r.path) > 1
          /\ tree[r.node].root = <<>>
          /\ Len(tree[r.node].urls) > 0
    /\ \E r \in Owned(tree) : Len(tree[r.node].urls) = 0

\* C16: every child of prefs other than ROOT that existed before the
\* flattening is afterwards still the same node with the same subtree, also
\* when a child of prefs/ROOT has the same segment name.
C16_OnlyRootChanges ==
    (/\ pc = "flat"
     /\ HasKey(fbefore[1][TreeRoot].urls, <<"prefs">>)) =>
        LET prefs_scheme == Get(fbefore[1][TreeRoot].urls, <<"prefs">>)
        IN \A i \in 1..Len(fbefore[1][prefs_scheme].urls) :
              LET c == fbefore[1][prefs_scheme].urls[i]
              IN c.key # <<"ROOT">> =>
                    /\ HasKey(tree[prefs_scheme].urls, c.key)
                    /\ Get(tree[prefs_scheme].urls, c.key) = c.node
                    /\ \A r \in Reach(fbefore[1], c.node, <<>>) :
                          tree[r.node] = fbefore[1][r.node]

\* the URLs a line of the outline holds between backticks, from piece i on
RECURSIVE QuotedUrls(_, _)
QuotedUrls(line, i) ==
    IF i > Len(line) THEN {}
    ELSE IF line[i] # BACKTICK THEN QuotedUrls(line, i + 1)
    ELSE LET close == Find(line, {BACKTICK}, i + 1)
         IN {SubSeq(line, i + 1, close - 1)} \cup QuotedUrls(line, close + 1)

\* C17: for every locale and scheme subtree, each record URL and alias URL of
\* a line of build_markdown_lines is a leaf string or list element of
\* build_localized_tree, also the aliases of owned nodes that have children.
C17_SameUrls ==
    pc = "rendered" =>
        \A locale \in DOMAIN exported :
            \A i \in 1..Len(exported[locale]) :
                \A j \in 1..Len(exported[locale][i].md) :
                    QuotedUrls(exported[locale][i].md[j], 1)
                        \subseteq Leaves(exported[locale][i].json)

====
